---- MODULE Spec2Model ----
(***************************************************************************)
(* Betting market service (backend/services/betting_market/main.py) over   *)
(* the relational rows declared in backend/shared/models.py.               *)
(*                                                                         *)
(* Units.  Stakes and volumes (DECIMAL(20,8) columns) are counted in whole *)
(* currency units; odds (DECIMAL(10,4) columns) are counted in units of    *)
(* 1/10000; a potential_payout is stake * odds and is therefore counted in *)
(* units of 1/10000 of a currency unit.  All inputs of the model lie on    *)
(* this grid, where Decimal arithmetic is exact and no column rounds.      *)
(*                                                                         *)
(* Store.  The variables market, outcome and positions are the committed   *)
(* rows.  A request runs in its own session (shared/database.py,           *)
(* get_db_session): what it reads is committed data, what it writes is     *)
(* seen by others at its commit, and a request that raises before its      *)
(* commit is rolled back.  The foreign keys of models.py are enforced by   *)
(* the store, so a position on an outcome id of no row is refused at the   *)
(* flush.                                                                  *)
(*                                                                         *)
(* Two views of place_position.  PlacePosition is the whole handler run    *)
(* with no other request in between.  PlaceBegin, PlaceCommit and          *)
(* PlaceFinish are the same handler cut at its awaits: the read of the     *)
(* market row, the commit, and the odds update with the broadcast (the     *)
(* odds update is a transaction of its own and is taken as one step).      *)
(*                                                                         *)
(* A market leaves "open" by a close or a cancellation; no endpoint of     *)
(* the service performs them, so CloseMarket and CancelMarket follow the   *)
(* lifecycle the specification gives.                                      *)
(***************************************************************************)
EXTENDS Integers, Sequences, FiniteSets, TLC

\* ------------------------------------------------------------------ bounds
MaxPositions == 2        \* rows of market_positions the model lets exist
MaxInflight == 2         \* requests the server handles at the same time
MaxStake == 120          \* largest stake of the odds specifications
MaxOlder == 2            \* positions older than the bulk of an order book

\* ------------------------------------------------------------- identifiers
NULL == "NULL"
NoOutcome == 0           \* resolution_data.get("winning_outcome_id") is None
OddsUnit == 10000        \* 1.0 on the DECIMAL(10, 4) grid
DefaultOdds == 20000     \* Decimal('2.0') given to a new outcome

MarketIds == {1, 2}                      \* rows of markets
OutcomeIds == {1, 2, 3}                  \* rows of market_outcomes
MissingOutcomeIds == {4}                 \* a well-formed id of no row
Users == {"u1", "u2"}                    \* clerk ids that own a profile

OutcomeMarket(o) == IF o = 3 THEN 2 ELSE 1
MarketCreator(m) == IF m = 1 THEN "u1" ELSE "u2"

\* Time is counted in whole ticks; every market is created with
\* closes_at at tick 1.
ClosesAt(m) == 1

\* inputs of the requests
PositionTypes == {"back", "lay"}
OtherTypes == {"hold"}                   \* a string that is neither
WinningIds == OutcomeIds \cup {NoOutcome}
ResolutionValues == {"yes"}

\* The requests a specification draws from.  LedgerScope: two markets live
\* through their lifecycle, positions are placed through market 1 on every
\* outcome id (its own, the other market's, a missing one) with one stake
\* and one odds value.  PayoutScope: one market and outcome, every user,
\* stake and odds value.  odds_failures says whether the statements of
\* update_market_odds may raise (a lost connection, a refused commit).
LedgerScope ==
  [markets |-> MarketIds, place_markets |-> {1},
   outcomes |-> OutcomeIds \cup MissingOutcomeIds,
   users |-> {"u1"}, types |-> PositionTypes,
   stakes |-> {0, 10}, odds |-> {20000}, odds_failures |-> {FALSE},
   times |-> {0}]

ConcurrentScope ==
  [markets |-> {1}, place_markets |-> {1}, outcomes |-> {1, 2},
   users |-> {"u1"}, types |-> {"back"},
   stakes |-> {0, 10, 50}, odds |-> {20000}, odds_failures |-> {FALSE},
   times |-> {0}]

PayoutScope ==
  [markets |-> {1}, place_markets |-> {1}, outcomes |-> {1},
   users |-> Users, types |-> PositionTypes,
   stakes |-> {10, 50}, odds |-> {15000, 20000}, odds_failures |-> {FALSE},
   times |-> {0}]

\* RequestScope: one market and outcome, one stake, every string a request
\* can carry as position_type, sent before and after closes_at.
RequestScope ==
  [markets |-> {1}, place_markets |-> {1}, outcomes |-> {1},
   users |-> {"u1"}, types |-> PositionTypes \cup OtherTypes,
   stakes |-> {0, 10}, odds |-> {20000}, odds_failures |-> {FALSE},
   times |-> {0, 1, 2}]

VARIABLES market, outcome, positions, events, last, inflight

\* the game engine: the session row, its player rows, the stored game
\* state document, join and create requests being handled, and the
\* messages broadcast to the session
VARIABLES session, players, game_state, joining, broadcasts

\* one key of a websocket registry and a broadcast to it in progress
VARIABLES active_connections, broadcast, received, socket, stayed

gameVars == <<session, players, game_state, joining, broadcasts>>

socketVars == <<active_connections, broadcast, received, socket, stayed>>

engineVars == <<gameVars, socketVars>>

marketVars == <<market, outcome, positions, events, inflight>>

vars == <<market, outcome, positions, events, last, inflight,
          session, players, game_state, joining, broadcasts,
          active_connections, broadcast, received, socket, stayed>>

\* ------------------------------------------------------------------- rows
NewMarket(m) ==
  [status |-> "open", total_volume |-> 0, participant_count |-> 0,
   creator_clerk_id |-> MarketCreator(m), closes_at |-> ClosesAt(m),
   resolved_at |-> NULL, resolution_value |-> NULL]

NewOutcome(o) ==
  [market_id |-> OutcomeMarket(o), current_odds |-> DefaultOdds,
   total_backed |-> 0, is_winner |-> NULL]

\* a request being handled: where it is and what its session holds in memory
Slots == 1..MaxInflight
Idle == [pc |-> "idle"]

NoRequest == [op |-> "none", market_id |-> 0, user |-> NULL,
              code |-> 0, detail |-> ""]

\* ------------------------------------------------- game engine at rest
GameUsers == {"u1", "u2", "u3"}
JoinSlots == {1, 2}
Sockets == {"w1", "w2", "w3"}
Managers == {"market", "game"}

NoSession == [status |-> "none", player_count |-> 0, max_players |-> 0,
              game |-> [min_players |-> 0, max_players |-> 0]]

NoGameState == [stored |-> FALSE, status |-> NULL, players |-> <<>>,
                turn |-> NULL, last_move |-> NULL, events |-> <<>>]

NoBroadcast == [pc |-> "idle", i |-> 0, disconnected |-> <<>>,
                detached |-> FALSE]

NoGame ==
  /\ session = NoSession
  /\ players = <<>>
  /\ game_state = NoGameState
  /\ joining = [s \in JoinSlots |-> Idle]
  /\ broadcasts = <<>>

\* the registry of manager kind under one key, nothing connected to it
NoConnections(kind) ==
  /\ active_connections = [manager |-> kind, present |-> FALSE,
                           list |-> <<>>]
  /\ broadcast = NoBroadcast
  /\ received = [w \in Sockets |-> 0]
  /\ socket = [w \in Sockets |-> "new"]
  /\ stayed = {}

NoSockets == NoConnections("market")

Init ==
  /\ NoGame
  /\ NoSockets
  /\ market = [m \in MarketIds |-> NewMarket(m)]
  /\ outcome = [o \in OutcomeIds |-> NewOutcome(o)]
  /\ positions = <<>>
  /\ events = [m \in MarketIds |-> <<>>]
  /\ last = NoRequest
  /\ inflight = [s \in Slots |-> Idle]

\* --------------------------------------------------------------- helpers
\* f(lo) + ... + f(hi), split in halves so that long ranges stay shallow
RECURSIVE RangeSum(_, _, _)
RangeSum(f(_), lo, hi) ==
  IF lo > hi THEN 0
  ELSE IF lo = hi THEN f(lo)
  ELSE LET mid == (lo + hi) \div 2
       IN  RangeSum(f, lo, mid) + RangeSum(f, mid + 1, hi)

SeqSum(s) == RangeSum(LAMBDA i : s[i], 1, Len(s))

StakesOf(ps) == SeqSum([i \in 1..Len(ps) |-> ps[i].stake])

Min(a, b) == IF a < b THEN a ELSE b
Max(a, b) == IF a > b THEN a ELSE b

\* round(x, 0) of the rational n / d, ties to even, as float round() does
RoundDiv(n, d) ==
  LET q == n \div d
      r == n % d
  IN  IF 2 * r > d \/ (2 * r = d /\ q % 2 = 1) THEN q + 1 ELSE q

\* the response of an endpoint whose try block raised `exc`:
\* `except ValueError` answers 400, `except Exception` answers 500
PlaceErrorCode(exc) == IF exc = "ValueError" THEN 400 ELSE 500
ResolveErrorCode(exc) == IF exc = "ValueError" THEN 400 ELSE 500

Response(op, m, u, code, detail) ==
  [op |-> op, market_id |-> m, user |-> u, code |-> code, detail |-> detail]

\* broadcast_to_market: the message goes to the channel of one market
Broadcast(evs, m, message) == [evs EXCEPT ![m] = Append(evs[m], message)]

\* ------------------------------------------------------- place_position
MarketAvailable_AnyStatus(m) == m \in MarketIds

MarketAvailable(m) == m \in MarketIds /\ market[m].status = "open"

StakeValid(stake) == stake > 0

PotentialPayout_AlwaysBack(position_type, stake, odds) == stake * odds

PotentialPayout(position_type, stake, odds) ==
  IF position_type = "back" THEN stake * odds
  ELSE stake * (odds - OddsUnit)

NewPosition(m, o, u, t, stake, odds, now) ==
  [market_id |-> m, outcome_id |-> o, clerk_user_id |-> u,
   position_type |-> t, stake |-> stake, odds |-> odds,
   potential_payout |-> PotentialPayout(t, stake, odds),
   status |-> "open", created_at |-> now, settled_at |-> NULL]

\* the clock does not run backwards: a request is handled no earlier than
\* the newest row was created
ClockAllows(now) ==
  IF positions = <<>> THEN TRUE
  ELSE now >= positions[Len(positions)].created_at

NewTotalVolume_Overwrite(total_volume, stake) == stake

NewTotalVolume(total_volume, stake) == total_volume + stake

\* The count query runs after db.add(position): the session autoflushes the
\* pending INSERT first, so the count includes the new row.
UserHasPositions(u, m, ps) ==
  Cardinality({i \in 1..Len(ps) :
                 ps[i].clerk_user_id = u /\ ps[i].market_id = m}) > 0

NewParticipantCount_Always(count, u, m, ps) == count + 1

NewParticipantCount(count, u, m, ps) ==
  IF count = 0 \/ ~UserHasPositions(u, m, ps) THEN count + 1 ELSE count

NewOdds_Uncapped(total_backed) ==
  100 * RoundDiv(10000, Max(5, total_backed))

NewOdds_Truncated(total_backed) ==
  100 * (10000 \div Max(5, Min(95, total_backed)))

NewOdds(total_backed) ==
  100 * RoundDiv(10000, Max(5, Min(95, total_backed)))

UpdateMarketOdds_EveryOutcome(m, outs) ==
  [o \in OutcomeIds |->
     IF outs[o].market_id = m
     THEN [outs[o] EXCEPT !.current_odds = NewOdds(outs[o].total_backed)]
     ELSE outs[o]]

\* update_market_odds: every outcome of the market with total_backed > 0
UpdateMarketOdds(m, outs) ==
  [o \in OutcomeIds |->
     IF outs[o].market_id = m /\ outs[o].total_backed > 0
     THEN [outs[o] EXCEPT !.current_odds = NewOdds(outs[o].total_backed)]
     ELSE outs[o]]

\* update_market_odds wraps its body in try/except and only prints the
\* error (lines 752-753): no failure of the update reaches place_position
OddsErrorPropagates_Uncaught(failed) == failed

OddsErrorPropagates(failed) == FALSE

\* the rows after update_market_odds ran: a failed update changes no row
OddsAfter(m, outs, failed) ==
  IF failed THEN outs ELSE UpdateMarketOdds(m, outs)

AddBacked(outs, o, stake) ==
  [outs EXCEPT ![o].total_backed = outs[o].total_backed + stake]

PositionPlaced(m, o, t, stake, odds, total_volume) ==
  [type |-> "position_placed", market_id |-> m, outcome_id |-> o,
   position_type |-> t, stake |-> stake, odds |-> odds,
   total_volume |-> total_volume, resolution_value |-> NULL]

PlaceRejected(m, u, exc, detail) ==
  /\ last' = Response("place", m, u, PlaceErrorCode(exc), detail)
  /\ UNCHANGED <<market, outcome, positions, events, inflight,
                 engineVars>>

\* What the session holds once the market row is read and the request is
\* validated (lines 458-503): the request and the market's counters.
Snapshot(m, o, u, t, stake, odds, now) ==
  [pc |-> "read", market_id |-> m, outcome_id |-> o, user |-> u,
   position_type |-> t, stake |-> stake, odds |-> odds, now |-> now,
   total_volume |-> market[m].total_volume,
   participant_count |-> market[m].participant_count]

\* What the commit of line 519 writes.  The market row gets the counters
\* computed in memory from the snapshot (the unit of work writes the
\* attributes that changed); total_backed is incremented by the UPDATE
\* statement itself, on the row as it is when the statement runs.
CommitPositions(r) ==
  Append(positions, NewPosition(r.market_id, r.outcome_id, r.user,
                                r.position_type, r.stake, r.odds, r.now))

CommitMarket(r) ==
  LET tv == NewTotalVolume(r.total_volume, r.stake)
      pc == NewParticipantCount(r.participant_count, r.user, r.market_id,
                                CommitPositions(r))
  IN  [market EXCEPT
         ![r.market_id].total_volume =
            IF tv # r.total_volume THEN tv ELSE @,
         ![r.market_id].participant_count =
            IF pc # r.participant_count THEN pc ELSE @]

CommitOutcome_Skipped(r) == outcome

CommitOutcome(r) == AddBacked(outcome, r.outcome_id, r.stake)

PlacedEvent_StaleVolume(r) ==
  PositionPlaced(r.market_id, r.outcome_id, r.position_type, r.stake, r.odds,
                 r.total_volume)

PlacedEvent(r) ==
  PositionPlaced(r.market_id, r.outcome_id, r.position_type, r.stake, r.odds,
                 NewTotalVolume(r.total_volume, r.stake))

\* One request handled with no other request in between; `failed` says
\* whether the odds update that follows the commit raises.
PlacePosition(m, o, u, t, stake, odds, failed, now) ==
  IF ~MarketAvailable(m)
  THEN PlaceRejected(m, u, "HTTPException", "Market not available for trading")
  ELSE IF ~StakeValid(stake)
  THEN PlaceRejected(m, u, "HTTPException", "Stake must be positive")
  ELSE IF o \notin OutcomeIds
  THEN PlaceRejected(m, u, "IntegrityError", "foreign key market_outcomes.id")
  ELSE
    LET r == Snapshot(m, o, u, t, stake, odds, now)
    IN  /\ Len(positions) < MaxPositions
        /\ ClockAllows(now)
        /\ positions' = CommitPositions(r)
        /\ market' = CommitMarket(r)
        /\ outcome' = OddsAfter(m, CommitOutcome(r), failed)
        /\ IF OddsErrorPropagates(failed)
           THEN /\ last' = Response("place", m, u, PlaceErrorCode("Exception"),
                                    "Error updating market odds")
                /\ UNCHANGED events
           ELSE /\ events' = Broadcast(events, m, PlacedEvent(r))
                /\ last' = Response("place", m, u, 200, "success")
        /\ UNCHANGED <<inflight, engineVars>>

\* The same request as the steps between which other requests can run:
\* up to the validation, the commit, and what follows the commit.
Pending == {s \in Slots : inflight[s].pc = "read"}

PlaceBegin(s, m, o, u, t, stake, odds, now) ==
  /\ inflight[s].pc = "idle"
  /\ IF ~MarketAvailable(m)
     THEN PlaceRejected(m, u, "HTTPException",
                        "Market not available for trading")
     ELSE IF ~StakeValid(stake)
     THEN PlaceRejected(m, u, "HTTPException", "Stake must be positive")
     ELSE /\ Len(positions) + Cardinality(Pending) < MaxPositions
          /\ inflight' = [inflight EXCEPT
                            ![s] = Snapshot(m, o, u, t, stake, odds, now)]
          /\ UNCHANGED <<market, outcome, positions, events, last,
                         engineVars>>

PlaceCommit(s) ==
  LET r == inflight[s] IN
  /\ r.pc = "read"
  /\ IF r.outcome_id \notin OutcomeIds
     THEN /\ last' = Response("place", r.market_id, r.user,
                              PlaceErrorCode("IntegrityError"),
                              "foreign key market_outcomes.id")
          /\ inflight' = [inflight EXCEPT ![s] = Idle]
          /\ UNCHANGED <<market, outcome, positions, events,
                         engineVars>>
     ELSE /\ positions' = CommitPositions(r)
          /\ market' = CommitMarket(r)
          /\ outcome' = CommitOutcome(r)
          /\ inflight' = [inflight EXCEPT ![s].pc = "committed"]
          /\ UNCHANGED <<events, last,
                         engineVars>>

PlaceFinish(s, failed) ==
  LET r == inflight[s] IN
  /\ r.pc = "committed"
  /\ outcome' = OddsAfter(r.market_id, outcome, failed)
  /\ IF OddsErrorPropagates(failed)
     THEN /\ last' = Response("place", r.market_id, r.user,
                              PlaceErrorCode("Exception"),
                              "Error updating market odds")
          /\ UNCHANGED events
     ELSE /\ events' = Broadcast(events, r.market_id, PlacedEvent(r))
          /\ last' = Response("place", r.market_id, r.user, 200, "success")
  /\ inflight' = [inflight EXCEPT ![s] = Idle]
  /\ UNCHANGED <<market, positions,
                 engineVars>>

\* ------------------------------------------------------- resolve_market
IsCreator_Anyone(m, u) == TRUE

IsCreator(m, u) == market[m].creator_clerk_id = u

Resolvable_AnyStatus(m) == TRUE

Resolvable(m) == market[m].status = "closed"

Utcnow == "T"

\* lines 405-416: clear the flags of the market's outcomes, flag the row
\* whose id is winning_outcome_id
MarkWinner(outs, m, w) ==
  IF w = NoOutcome THEN outs
  ELSE [o \in OutcomeIds |->
          IF o = w THEN [outs[o] EXCEPT !.is_winner = "TRUE"]
          ELSE IF outs[o].market_id = m
          THEN [outs[o] EXCEPT !.is_winner = "FALSE"]
          ELSE outs[o]]

Winners(outs, m) ==
  {o \in OutcomeIds : outs[o].market_id = m /\ outs[o].is_winner = "TRUE"}

IsWinningPosition_AnyType(p, m, w) ==
  /\ p.market_id = m
  /\ p.outcome_id = w
  /\ p.status = "open"

IsWinningPosition(p, m, w) ==
  /\ p.market_id = m
  /\ p.outcome_id = w
  /\ p.position_type = "back"
  /\ p.status = "open"

ProcessMarketPayouts_Unstamped(m, outs, ps) ==
  IF Cardinality(Winners(outs, m)) # 1 THEN ps
  ELSE LET w == CHOOSE o \in Winners(outs, m) : TRUE
       IN  [i \in 1..Len(ps) |->
              IF IsWinningPosition(ps[i], m, w)
              THEN [ps[i] EXCEPT !.status = "settled"]
              ELSE ps[i]]

ProcessMarketPayouts_Repriced(m, outs, ps) ==
  IF Cardinality(Winners(outs, m)) # 1 THEN ps
  ELSE LET w == CHOOSE o \in Winners(outs, m) : TRUE
       IN  [i \in 1..Len(ps) |->
              IF IsWinningPosition(ps[i], m, w)
              THEN [ps[i] EXCEPT
                      !.status = "settled", !.settled_at = Utcnow,
                      !.potential_payout = ps[i].stake * outs[w].current_odds]
              ELSE ps[i]]

\* process_market_payouts: scalar_one_or_none() returns None for no row
\* and raises for several rows; the except clause only prints
ProcessMarketPayouts(m, outs, ps) ==
  IF Cardinality(Winners(outs, m)) # 1 THEN ps
  ELSE LET w == CHOOSE o \in Winners(outs, m) : TRUE
       IN  [i \in 1..Len(ps) |->
              IF IsWinningPosition(ps[i], m, w)
              THEN [ps[i] EXCEPT !.status = "settled", !.settled_at = Utcnow]
              ELSE ps[i]]

MarketResolved(m, w, v) ==
  [type |-> "market_resolved", market_id |-> m, outcome_id |-> w,
   position_type |-> NULL, stake |-> 0, odds |-> 0,
   total_volume |-> 0, resolution_value |-> v]

ResolveRejected(m, u, exc, detail) ==
  /\ last' = Response("resolve", m, u, ResolveErrorCode(exc), detail)
  /\ UNCHANGED <<market, outcome, positions, events, inflight,
                 engineVars>>

ResolveMarket(m, u, w, v) ==
  IF m \notin MarketIds
  THEN ResolveRejected(m, u, "HTTPException", "Market not found")
  ELSE IF ~IsCreator(m, u)
  THEN ResolveRejected(m, u, "HTTPException", "Only market creator can resolve")
  ELSE IF ~Resolvable(m)
  THEN ResolveRejected(m, u, "HTTPException", "Market must be closed to resolve")
  ELSE
    LET outs == MarkWinner(outcome, m, w)
    IN  /\ market' = [market EXCEPT ![m].status = "resolved",
                                    ![m].resolved_at = Utcnow,
                                    ![m].resolution_value = v]
        /\ outcome' = outs
        /\ positions' = ProcessMarketPayouts(m, outs, positions)
        /\ events' = Broadcast(events, m, MarketResolved(m, w, v))
        /\ last' = Response("resolve", m, u, 200, "success")
        /\ UNCHANGED <<inflight, engineVars>>

\* --------------------------------------------------------- get_orderbook
OrderBookLimit == 100

\* the rows of the SELECT of lines 559-571: the open positions of the
\* market and outcome, newest first, at most OrderBookLimit of them
\* (positions is kept in the order of creation)
Reversed(ps) == [i \in 1..Len(ps) |-> ps[Len(ps) + 1 - i]]

RecentOpen(m, o, ps) ==
  LET open == SelectSeq(ps, LAMBDA p : /\ p.market_id = m
                                      /\ p.outcome_id = o
                                      /\ p.status = "open")
      newest == Reversed(open)
  IN  SubSeq(newest, 1, Min(OrderBookLimit, Len(newest)))

\* lines 574-586: back_orders gets the positions whose position_type is
\* 'back', lay_orders every other position; one key per odds value
Grouped(ps) ==
  [k \in {ps[i].odds : i \in 1..Len(ps)} |->
     StakesOf(SelectSeq(ps, LAMBDA p : p.odds = k))]

BackOrders(ps) ==
  Grouped(SelectSeq(ps, LAMBDA p : p.position_type = "back"))

LayOrders(ps) ==
  Grouped(SelectSeq(ps, LAMBDA p : p.position_type # "back"))

\* sorted(orders.items()): the entries by ascending odds
RECURSIVE Sorted(_)
Sorted(orders) ==
  IF DOMAIN orders = {} THEN <<>>
  ELSE LET top == CHOOSE k \in DOMAIN orders :
                    \A j \in DOMAIN orders : j <= k
       IN  Append(Sorted([k \in DOMAIN orders \ {top} |-> orders[k]]),
                  [odds |-> top, volume |-> orders[top]])

GetOrderBook(m, o) ==
  LET rows == RecentOpen(m, o, positions) IN
  /\ last' = [op |-> "orderbook", market_id |-> m, user |-> NULL,
              code |-> 200, detail |-> "success", outcome_id |-> o,
              back_orders |-> Reversed(Sorted(BackOrders(rows))),
              lay_orders |-> Sorted(LayOrders(rows))]
  /\ UNCHANGED <<market, outcome, positions, events, inflight,
                 engineVars>>

\* ------------------------------------- lifecycle steps outside the service
CloseMarket(m) ==
  /\ market[m].status = "open"
  /\ market' = [market EXCEPT ![m].status = "closed"]
  /\ UNCHANGED <<outcome, positions, events, last, inflight,
                 engineVars>>

CancelMarket(m) ==
  /\ market[m].status \in {"open", "closed"}
  /\ market' = [market EXCEPT ![m].status = "cancelled"]
  /\ UNCHANGED <<outcome, positions, events, last, inflight,
                 engineVars>>

\* ------------------------------------------------------------------ specs
NextOver(scope) ==
  \/ \E m \in scope.place_markets, o \in scope.outcomes, u \in scope.users,
        t \in scope.types, stake \in scope.stakes, odds \in scope.odds,
        failed \in scope.odds_failures, now \in scope.times :
       PlacePosition(m, o, u, t, stake, odds, failed, now)
  \/ \E m \in scope.markets, u \in Users, w \in WinningIds,
        v \in ResolutionValues :
       ResolveMarket(m, u, w, v)
  \/ \E m \in scope.markets : CloseMarket(m)
  \/ \E m \in scope.markets : CancelMarket(m)

Next == NextOver(LedgerScope)

Spec == Init /\ [][Next]_vars

NextConcurrent ==
  \/ \E s \in Slots, m \in ConcurrentScope.place_markets,
        o \in ConcurrentScope.outcomes, u \in ConcurrentScope.users,
        t \in ConcurrentScope.types, stake \in ConcurrentScope.stakes,
        odds \in ConcurrentScope.odds, now \in ConcurrentScope.times :
       PlaceBegin(s, m, o, u, t, stake, odds, now)
  \/ \E s \in Slots : PlaceCommit(s)
  \/ \E s \in Slots, failed \in ConcurrentScope.odds_failures :
       PlaceFinish(s, failed)
  \/ \E m \in ConcurrentScope.markets : CloseMarket(m)
  \/ \E m \in ConcurrentScope.markets, w \in ConcurrentScope.outcomes,
        v \in ResolutionValues :
       ResolveMarket(m, MarketCreator(m), w, v)

SpecConcurrent == Init /\ [][NextConcurrent]_vars

NextPayout == NextOver(PayoutScope)

SpecPayout == Init /\ [][NextPayout]_vars

\* The odds update over every total_backed up to MaxStake: the store as
\* the commit of line 519 leaves it for the first placement on market 1,
\* a back position of stake 1..MaxStake on outcome 1, the request being
\* about to call update_market_odds.
InitOdds ==
  \E stake \in 1..MaxStake :
    LET r == [pc |-> "committed", market_id |-> 1, outcome_id |-> 1,
              user |-> "u1", position_type |-> "back", stake |-> stake,
              odds |-> DefaultOdds, now |-> 0, total_volume |-> 0,
              participant_count |-> 0]
    IN  /\ market =
             [m \in MarketIds |->
                IF m = 1
                THEN [NewMarket(m) EXCEPT
                        !.total_volume = NewTotalVolume(0, stake),
                        !.participant_count = 1]
                ELSE NewMarket(m)]
        /\ outcome = AddBacked([o \in OutcomeIds |-> NewOutcome(o)], 1, stake)
        /\ positions =
             <<NewPosition(1, 1, "u1", "back", stake, DefaultOdds, 0)>>
        /\ events = [m \in MarketIds |-> <<>>]
        /\ last = NoRequest
        /\ inflight = [s \in Slots |-> IF s = 1 THEN r ELSE Idle]
        /\ NoGame
        /\ NoSockets

NextOdds(failures) ==
  \E s \in Slots, failed \in failures : PlaceFinish(s, failed)

NextOddsUpdated == NextOdds({FALSE})

SpecOdds == InitOdds /\ [][NextOddsUpdated]_vars

NextOddsFailure == NextOdds(BOOLEAN)

SpecOddsFailure == InitOdds /\ [][NextOddsFailure]_vars

\* The order book over long lists of positions: the store after u1 placed,
\* on market 1, up to MaxOlder positions of any type, odds and outcome and
\* then a bulk of equal back positions on outcome 1 (none, one less than
\* the limit of the order book, or as many as the limit).
OlderPositions ==
  {NewPosition(1, o, "u1", t, 10, odds, 0) :
     o \in {1, 2}, t \in PositionTypes \cup OtherTypes,
     odds \in {15000, 20000}}

BulkPosition == NewPosition(1, 1, "u1", "back", 1, 30000, 0)

BulkSizes == {0, OrderBookLimit - 1, OrderBookLimit}

\* the rows that placing ps on market 1, one request after the other,
\* leaves: the counters hold the sums and the odds follow total_backed
StoreAfter(ps) ==
  [market |->
     [m \in MarketIds |->
        IF m = 1 /\ ps # <<>>
        THEN [NewMarket(m) EXCEPT !.total_volume = StakesOf(ps),
                                  !.participant_count = 1]
        ELSE NewMarket(m)],
   outcome |->
     UpdateMarketOdds(1,
       [o \in OutcomeIds |->
          [NewOutcome(o) EXCEPT
             !.total_backed =
                StakesOf(SelectSeq(ps, LAMBDA p : p.outcome_id = o))]])]

InitOrderBook ==
  \E n \in 0..MaxOlder, bulk \in BulkSizes :
    \E older \in [1..n -> OlderPositions] :
      LET ps == older \o [i \in 1..bulk |-> BulkPosition]
          store == StoreAfter(ps)
      IN  /\ positions = ps
          /\ market = store.market
          /\ outcome = store.outcome
          /\ events = [m \in MarketIds |-> <<>>]
          /\ last = NoRequest
          /\ inflight = [s \in Slots |-> Idle]
          /\ NoGame
          /\ NoSockets

NextOrderBook == \E m \in {1}, o \in {1, 2} : GetOrderBook(m, o)

SpecOrderBook == InitOrderBook /\ [][NextOrderBook]_vars

NextRequest == NextOver(RequestScope)

SpecRequest == Init /\ [][NextRequest]_vars

\* ------------------------------------------------------------ game engine
\* games as seeded rows; the session asks for max_players of its own
Games == {[min_players |-> a, max_players |-> 3] : a \in 1..3}
RequestedMaxPlayers == {2, 3, 4}

\* user_profiles.id is a UUID of its own, clerk_user_id a Clerk string
ProfileOf(u) ==
  CASE u = "u1" -> "p1"
    [] u = "u2" -> "p2"
    [] u = "u3" -> "p3"

NoMove == "absent"
MoveData == {[data |-> "d", move |-> mv] : mv \in {NoMove, "m1"}}

JoinErrorCode(exc) == IF exc = "ValueError" THEN 400 ELSE 500

NewSession(requested, g) ==
  [status |-> "waiting", player_count |-> 0,
   max_players |-> Min(requested, g.max_players), game |-> g]

NewPlayer(u, position) == [clerk_user_id |-> u, position |-> position]

NewGameState(u) ==
  [stored |-> TRUE, status |-> "waiting", players |-> <<ProfileOf(u)>>,
   turn |-> NULL, last_move |-> NULL, events |-> <<>>]

IsPlayer(u, plrs) == \E i \in 1..Len(plrs) : plrs[i].clerk_user_id = u

JoinCheck_AnyStatus(u, sess, plrs) ==
  IF sess.status = "none" THEN "Session not found"
  ELSE IF sess.player_count >= sess.max_players THEN "Session is full"
  ELSE IF IsPlayer(u, plrs) THEN "Already in this session"
  ELSE "ok"

\* the checks of join_game_session in their order; "ok" lets the join go on
JoinCheck(u, sess, plrs) ==
  IF sess.status = "none" THEN "Session not found"
  ELSE IF sess.status \notin {"waiting"}
  THEN "Session is not accepting players"
  ELSE IF sess.player_count >= sess.max_players THEN "Session is full"
  ELSE IF IsPlayer(u, plrs) THEN "Already in this session"
  ELSE "ok"

\* lines 392-397 on the session object the request holds
AutoStart(sess) ==
  IF sess.player_count >= sess.game.min_players /\ sess.status = "waiting"
  THEN "active"
  ELSE sess.status

Joined(sess) ==
  LET counted == [sess EXCEPT !.player_count = @ + 1]
  IN  [counted EXCEPT !.status = AutoStart(counted)]

\* update_one of lines 403-412: no document matched, nothing written
PushPlayer(state, u, status) ==
  IF state.stored
  THEN [state EXCEPT !.players = Append(@, ProfileOf(u)),
                     !.status = status]
  ELSE state

JoinedMessage(u, position, sess) ==
  [type |-> "player_joined", user_id |-> u, position |-> position,
   player_count |-> sess.player_count, session_status |-> sess.status]

JoinRejected(u, exc, detail) ==
  /\ last' = Response("join", 0, u, JoinErrorCode(exc), detail)
  /\ UNCHANGED <<marketVars, gameVars, socketVars>>

\* create_game_session as one request, nothing running beside it
CreateGameSession(u, requested, g) ==
  /\ session.status = "none"
  /\ session' = [NewSession(requested, g) EXCEPT !.player_count = 1]
  /\ players' = <<NewPlayer(u, 1)>>
  /\ game_state' = NewGameState(u)
  /\ last' = Response("create", 0, u, 200, "success")
  /\ UNCHANGED <<marketVars, joining, broadcasts, socketVars>>

\* join_game_session as one request, nothing running beside it
JoinGameSession(u) ==
  LET check == JoinCheck(u, session, players)
      after == Joined(session)
      position == session.player_count + 1
  IN  IF check # "ok"
      THEN JoinRejected(u, "HTTPException", check)
      ELSE /\ players' = Append(players, NewPlayer(u, position))
           /\ session' = after
           /\ game_state' = PushPlayer(game_state, u, after.status)
           /\ broadcasts' =
                Append(broadcasts, JoinedMessage(u, position, after))
           /\ last' = Response("join", 0, u, 200, "success")
           /\ UNCHANGED <<marketVars, joining, socketVars>>

\* ------------------------------------------------------ handle_game_move
MaxMoves == 2

ValidateMove(state, u) == ~(state.turn # NULL /\ state.turn # u)

IndexOf(ps, x) == CHOOSE i \in 1..Len(ps) :
                    ps[i] = x /\ \A j \in 1..(i - 1) : ps[j] # x

ApplyMove(state, u, move_data) ==
  LET ps == state.players
      turned == IF \E i \in 1..Len(ps) : ps[i] = u
                THEN [state EXCEPT
                        !.turn = ps[(IndexOf(ps, u) % Len(ps)) + 1]]
                ELSE state
  IN  IF move_data.move # NoMove
      THEN [turned EXCEPT !.last_move = move_data.move]
      ELSE turned

MoveEvent(u, move_data) ==
  [type |-> "move", user_id |-> u, data |-> move_data.data]

UpdateMessage(state, u, move_data) ==
  [type |-> "game_update", turn |-> state.turn,
   last_move |-> [user_id |-> u, data |-> move_data.data]]

\* a game_move message of a connected player; the endpoint admits only
\* users that have a player row of the session
HandleGameMove(u, move_data) ==
  /\ IsPlayer(u, players)
  /\ Len(game_state.events) < MaxMoves
  /\ IF ~game_state.stored \/ ~ValidateMove(game_state, u)
     THEN UNCHANGED <<game_state, broadcasts>>
     ELSE LET new_state == ApplyMove(game_state, u, move_data)
          IN  /\ game_state' =
                   [new_state EXCEPT
                      !.events = Append(@, MoveEvent(u, move_data))]
              /\ broadcasts' =
                   Append(broadcasts, UpdateMessage(new_state, u, move_data))
  /\ UNCHANGED <<marketVars, last, session, players, joining, socketVars>>

\* ------------------------------------ game requests running side by side
\* create_game_session up to its first commit (line 291)
CreateBegin(s, u, requested, g) ==
  /\ joining[s].pc = "idle"
  /\ session.status = "none"
  /\ session' = NewSession(requested, g)
  /\ joining' = [joining EXCEPT ![s] = [pc |-> "created", user |-> u]]
  /\ UNCHANGED <<marketVars, last, players, game_state, broadcasts,
                 socketVars>>

\* its second commit (line 305): the creator's row and player_count = 1
CreateCommit(s) ==
  LET r == joining[s] IN
  /\ r.pc = "created"
  /\ IF IsPlayer(r.user, players)
     THEN /\ last' = Response("create", 0, r.user,
                              JoinErrorCode("IntegrityError"),
                              "unique ix_game_players_session_user")
          /\ joining' = [joining EXCEPT ![s] = Idle]
          /\ UNCHANGED <<session, players>>
     ELSE /\ players' = Append(players, NewPlayer(r.user, 1))
          /\ session' = [session EXCEPT !.player_count = 1]
          /\ joining' = [joining EXCEPT ![s].pc = "player_added"]
          /\ UNCHANGED last
  /\ UNCHANGED <<marketVars, game_state, broadcasts, socketVars>>

\* insert_one of lines 309-324 and the response
CreateFinish(s) ==
  LET r == joining[s] IN
  /\ r.pc = "player_added"
  /\ game_state' = NewGameState(r.user)
  /\ last' = Response("create", 0, r.user, 200, "success")
  /\ joining' = [joining EXCEPT ![s] = Idle]
  /\ UNCHANGED <<marketVars, session, players, broadcasts, socketVars>>

\* join_game_session up to its last read: the session object it holds
JoinBegin(s, u) ==
  LET check == JoinCheck(u, session, players) IN
  /\ joining[s].pc = "idle"
  /\ IF check # "ok"
     THEN JoinRejected(u, "HTTPException", check)
     ELSE /\ joining' = [joining EXCEPT
                           ![s] = [pc |-> "read", user |-> u,
                                   session |-> session]]
          /\ UNCHANGED <<marketVars, last, session, players, game_state,
                         broadcasts, socketVars>>

\* the commit of line 399: the player row, and the attributes the request
\* changed on its session object
JoinCommit(s) ==
  LET r == joining[s]
      after == Joined(r.session)
  IN  /\ r.pc = "read"
      /\ IF IsPlayer(r.user, players)
         THEN /\ last' = Response("join", 0, r.user,
                                  JoinErrorCode("IntegrityError"),
                                  "unique ix_game_players_session_user")
              /\ joining' = [joining EXCEPT ![s] = Idle]
              /\ UNCHANGED <<session, players>>
         ELSE /\ players' =
                   Append(players, NewPlayer(r.user, after.player_count))
              /\ session' =
                   [session EXCEPT
                      !.player_count = after.player_count,
                      !.status = IF after.status # r.session.status
                                 THEN after.status
                                 ELSE @]
              /\ joining' = [joining EXCEPT ![s].pc = "committed",
                                            ![s].session = after]
              /\ UNCHANGED last
      /\ UNCHANGED <<marketVars, game_state, broadcasts, socketVars>>

\* the document update, the broadcast and the response
JoinFinish(s) ==
  LET r == joining[s] IN
  /\ r.pc = "committed"
  /\ game_state' = PushPlayer(game_state, r.user, r.session.status)
  /\ broadcasts' =
       Append(broadcasts,
              JoinedMessage(r.user, r.session.player_count, r.session))
  /\ last' = Response("join", 0, r.user, 200, "success")
  /\ joining' = [joining EXCEPT ![s] = Idle]
  /\ UNCHANGED <<marketVars, session, players, socketVars>>

NextGame ==
  \/ \E u \in GameUsers, requested \in RequestedMaxPlayers, g \in Games :
       CreateGameSession(u, requested, g)
  \/ \E u \in GameUsers : JoinGameSession(u)
  \/ \E u \in GameUsers, move_data \in MoveData : HandleGameMove(u, move_data)

SpecGame == Init /\ [][NextGame]_vars

NextGameConcurrent ==
  \/ \E s \in JoinSlots, u \in GameUsers, requested \in RequestedMaxPlayers,
        g \in Games : CreateBegin(s, u, requested, g)
  \/ \E s \in JoinSlots : CreateCommit(s)
  \/ \E s \in JoinSlots : CreateFinish(s)
  \/ \E s \in JoinSlots, u \in GameUsers : JoinBegin(s, u)
  \/ \E s \in JoinSlots : JoinCommit(s)
  \/ \E s \in JoinSlots : JoinFinish(s)

SpecGameConcurrent == Init /\ [][NextGameConcurrent]_vars

\* ----------------------------------------------------- websocket registry
\* MarketWebSocketManager and GameWebSocketManager under one key. A socket
\* is new, then open (connected, its handler waiting in receive_json), then
\* closed (the peer is gone, a send raises), then gone (its handler has
\* called disconnect).
Members(list) == {list[i] : i \in 1..Len(list)}

Without(list, ws) == SelectSeq(list, LAMBDA w : w \notin ws)

\* connect, after accept has returned
Connect(w) ==
  /\ socket[w] = "new"
  /\ socket' = [socket EXCEPT ![w] = "open"]
  /\ active_connections' =
       [active_connections EXCEPT
          !.present = TRUE,
          !.list = IF active_connections.present
                   THEN Append(@, w)
                   ELSE <<w>>]
  /\ UNCHANGED <<marketVars, last, gameVars, broadcast, received, stayed>>

\* the peer of a connected socket goes away
Close(w) ==
  /\ socket[w] = "open"
  /\ socket' = [socket EXCEPT ![w] = "closed"]
  /\ UNCHANGED <<marketVars, last, gameVars, active_connections, broadcast,
                 received, stayed>>

\* only the game manager deletes the entry of a list that became empty
EntryKept(kind, list) == kind = "market" \/ list # <<>>

\* disconnect, called by the handler of w on WebSocketDisconnect. A list
\* that is deleted while a broadcast iterates over it is left to the
\* broadcast, empty, and the registry gets a new one on the next connect.
Disconnect(w) ==
  LET reg == active_connections
      list == Without(reg.list, {w})
      kept == EntryKept(reg.manager, list)
  IN  /\ socket[w] = "closed"
      /\ socket' = [socket EXCEPT ![w] = "gone"]
      /\ active_connections' =
           IF reg.present
           THEN [reg EXCEPT !.list = list, !.present = kept]
           ELSE reg
      /\ broadcast' =
           IF reg.present /\ ~kept /\ broadcast.pc = "sending"
           THEN [broadcast EXCEPT !.detached = TRUE]
           ELSE broadcast
      /\ stayed' = stayed \ {w}
      /\ UNCHANGED <<marketVars, last, gameVars, received>>

\* the list the for loop of the broadcast iterates over
Iterated(b) == IF b.detached THEN <<>> ELSE active_connections.list

\* the broadcast from a point where it holds the processor up to its next
\* awaited send, or to its end: the next connection of the list is sent
\* to (the send raises on a closed socket), or the list is exhausted and
\* the failed connections are removed from the list of the registry,
\* which raises KeyError if the key is gone
Iterate(b, st) ==
  LET list == Iterated(b)
      reg == active_connections
  IN  IF b.i < Len(list)
      THEN LET w == list[b.i + 1]
           IN  /\ IF socket[w] = "open"
                  THEN /\ received' = [received EXCEPT ![w] = @ + 1]
                       /\ broadcast' = [b EXCEPT !.pc = "sending",
                                                 !.i = @ + 1]
                  ELSE /\ broadcast' =
                            [b EXCEPT !.pc = "sending", !.i = @ + 1,
                                      !.disconnected = Append(@, w)]
                       /\ UNCHANGED received
               /\ stayed' = st
               /\ UNCHANGED active_connections
      ELSE /\ UNCHANGED received
           /\ IF b.disconnected # <<>> /\ ~reg.present
              THEN /\ broadcast' = [b EXCEPT !.pc = "raised"]
                   /\ stayed' = st
                   /\ UNCHANGED active_connections
              ELSE /\ broadcast' = [b EXCEPT !.pc = "done"]
                   /\ active_connections' =
                        [reg EXCEPT
                           !.list = Without(@, Members(b.disconnected))]
                   /\ stayed' = st \ Members(b.disconnected)

\* broadcast_to_market, broadcast_to_session: from the call to the first
\* awaited send
BroadcastBegin ==
  /\ broadcast.pc = "idle"
  /\ IF ~active_connections.present
     THEN /\ broadcast' = [broadcast EXCEPT !.pc = "done"]
          /\ UNCHANGED <<active_connections, received, stayed>>
     ELSE Iterate(broadcast, Members(active_connections.list))
  /\ UNCHANGED <<marketVars, last, gameVars, socket>>

\* from the return of one send to the next send or to the end
BroadcastNext ==
  /\ broadcast.pc = "sending"
  /\ Iterate(broadcast, stayed)
  /\ UNCHANGED <<marketVars, last, gameVars, socket>>

InitBroadcast ==
  /\ market = [m \in MarketIds |-> NewMarket(m)]
  /\ outcome = [o \in OutcomeIds |-> NewOutcome(o)]
  /\ positions = <<>>
  /\ events = [m \in MarketIds |-> <<>>]
  /\ last = NoRequest
  /\ inflight = [s \in Slots |-> Idle]
  /\ NoGame
  /\ \E kind \in Managers : NoConnections(kind)

NextBroadcast ==
  \/ \E w \in Sockets : Connect(w)
  \/ \E w \in Sockets : Close(w)
  \/ \E w \in Sockets : Disconnect(w)
  \/ BroadcastBegin
  \/ BroadcastNext

SpecBroadcast == InitBroadcast /\ [][NextBroadcast]_vars

\* ------------------------------------------------------------- properties
\* the sum of the stakes of the positions of ps whose field is id
StakedOn(ps, field, id) ==
  LET sum[i \in 0..Len(ps)] ==
        IF i = 0 THEN 0
        ELSE sum[i - 1] + (IF ps[i][field] = id THEN ps[i].stake ELSE 0)
  IN  sum[Len(ps)]

PositionsOf(m) == SelectSeq(positions, LAMBDA p : p.market_id = m)
PositionsOn(o) == SelectSeq(positions, LAMBDA p : p.outcome_id = o)
OutcomesOf(m) == {o \in OutcomeIds : outcome[o].market_id = m}

RECURSIVE SetSum(_, _)
SetSum(f(_), S) ==
  IF S = {} THEN 0
  ELSE LET x == CHOOSE y \in S : TRUE IN f(x) + SetSum(f, S \ {x})

BackedOf(m) == SetSum(LAMBDA o : outcome[o].total_backed, OutcomesOf(m))

\* C1: every recorded position with stake > 0 and odds >= 1 has
\* potential_payout = stake * odds if it is a back position and
\* stake * (odds - 1) if it is a lay position.
C1_PayoutByType ==
  \A i \in 1..Len(positions) :
    LET p == positions[i] IN
    (p.stake > 0 /\ p.odds >= OddsUnit) =>
      /\ p.position_type = "back" => p.potential_payout = p.stake * p.odds
      /\ p.position_type = "lay" =>
           p.potential_payout = p.stake * (p.odds - OddsUnit)

C1_Witness ==
  \E i, j \in 1..Len(positions) :
    /\ positions[i].position_type = "back"
    /\ positions[j].position_type = "lay"
    /\ positions[i].stake = positions[j].stake
    /\ positions[i].odds = positions[j].odds
    /\ positions[i].potential_payout # positions[j].potential_payout

\* C2: after any sequence of successful placements handled one after
\* another, a market's total_volume is the sum of the stakes placed in it.
C2_VolumeIsSumOfStakes ==
  \A m \in MarketIds : market[m].total_volume = StakesOf(PositionsOf(m))

C2_Witness ==
  /\ Len(PositionsOf(1)) >= 2
  /\ \E i, j \in 1..Len(positions) : positions[i].stake # positions[j].stake

\* C3: once every concurrent placement has committed, a market's
\* total_volume is the sum of the stakes of its positions and an outcome's
\* total_backed is the sum of the stakes placed on it.
C3_NoLostUpdate ==
  Pending = {} =>
    /\ \A m \in MarketIds : market[m].total_volume = StakesOf(PositionsOf(m))
    /\ \A o \in OutcomeIds : outcome[o].total_backed = StakesOf(PositionsOn(o))

\* C4: a placement on a market that is not open is answered with 400.
C4_NotOpenIs400 ==
  (last.op = "place" /\ last.detail = "Market not available for trading")
    => last.code = 400

\* C5: a resolution of a market that is not closed is answered with 400.
C5_NotClosedIs400 ==
  (last.op = "resolve" /\ last.detail = "Market must be closed to resolve")
    => last.code = 400

\* C6: a placement answered while the market is not open, or rejected for
\* its stake, records no position, leaves total_volume, participant_count,
\* total_backed and current_odds as they are and emits no event.
C6_RejectedPlaceChangesNothing ==
  [][(/\ last'.op = "place"
      /\ \/ market[last'.market_id].status # "open"
         \/ last'.detail = "Stake must be positive")
     => /\ positions' = positions
        /\ events' = events
        /\ outcome' = outcome
        /\ \A m \in MarketIds :
             /\ market'[m].total_volume = market[m].total_volume
             /\ market'[m].participant_count = market[m].participant_count]_vars

C6_Witness ==
  /\ last.op = "place"
  /\ last.detail \in {"Market not available for trading",
                      "Stake must be positive"}
  /\ Len(positions) > 0

\* C7: a step that answers a resolve request of a caller who is not the
\* market's creator changes no market, outcome or position (a step that
\* leaves the last response as it is may be a close or a cancellation).
LifecycleStep == \E m \in MarketIds : CloseMarket(m) \/ CancelMarket(m)

C7_NonCreatorResolveChangesNothing ==
  [][(/\ last'.op = "resolve"
      /\ last'.market_id \in MarketIds
      /\ market[last'.market_id].creator_clerk_id # last'.user)
     => (LifecycleStep \/ UNCHANGED <<market, outcome, positions>>)]_vars

C7_Witness ==
  /\ last.op = "resolve"
  /\ market[last.market_id].creator_clerk_id # last.user
  /\ market[last.market_id].status = "closed"
  /\ Len(PositionsOf(last.market_id)) > 0

\* C8: the step that resolves market M with a winning outcome W of M
\* settles every open back position of M on W and leaves the status of
\* every other position as it was.
ResolvedWith(m, w) ==
  /\ market[m].status # "resolved"
  /\ market'[m].status = "resolved"
  /\ Len(events'[m]) = Len(events[m]) + 1
  /\ events'[m][Len(events'[m])].type = "market_resolved"
  /\ events'[m][Len(events'[m])].outcome_id = w

C8_SettlesWinningBacks ==
  [][\A m \in MarketIds : \A w \in OutcomesOf(m) :
       ResolvedWith(m, w) =>
         /\ Len(positions') = Len(positions)
         /\ \A i \in 1..Len(positions) :
              LET p == positions[i] IN
              IF /\ p.market_id = m
                 /\ p.outcome_id = w
                 /\ p.position_type = "back"
                 /\ p.status = "open"
              THEN positions'[i].status = "settled"
              ELSE positions'[i].status = p.status]_vars

C8_Witness ==
  \E i, j \in 1..Len(positions) :
    /\ positions[i].status = "settled"
    /\ positions[j].position_type = "lay"
    /\ positions[j].market_id = positions[i].market_id
    /\ positions[j].outcome_id = positions[i].outcome_id
    /\ positions[j].status = "open"

\* C9: every market has at most one outcome with is_winner = true, and
\* only a resolved market has one.
C9_OneWinnerOnlyResolved ==
  \A m \in MarketIds :
    /\ Cardinality(Winners(outcome, m)) <= 1
    /\ Winners(outcome, m) # {} => market[m].status = "resolved"

\* C10: every recorded position is on an outcome of its own market, and a
\* market's total_volume is the sum of total_backed over its outcomes.
C10_OutcomeBelongsToMarket ==
  /\ \A i \in 1..Len(positions) :
       outcome[positions[i].outcome_id].market_id = positions[i].market_id
  /\ \A m \in MarketIds : market[m].total_volume = BackedOf(m)

\* the distinct users who hold a position in market m
UsersIn(m) ==
  {positions[i].clerk_user_id :
     i \in {j \in 1..Len(positions) : positions[j].market_id = m}}

\* C11: after any sequence of successful placements, a market's
\* participant_count is the number of distinct users holding a position
\* in it.
C11_CountsDistinctUsers ==
  \A m \in MarketIds : market[m].participant_count = Cardinality(UsersIn(m))

\* C12: over any sequence of placements a market's participant_count never
\* decreases and never exceeds the number of distinct users who have
\* placed a position in the market.
C12_CountBoundedByUsers ==
  [][\A m \in MarketIds :
       /\ market'[m].participant_count >= market[m].participant_count
       /\ market'[m].participant_count <= Cardinality(UsersIn(m)')]_vars

C12_Witness ==
  \E i, j \in 1..Len(positions) :
    /\ i # j
    /\ positions[i].market_id = positions[j].market_id
    /\ positions[i].clerk_user_id = positions[j].clerk_user_id
    /\ market[positions[i].market_id].participant_count = 1

\* C13: with requests handled one after another, after every step each
\* market's total_volume is the sum of the stakes of its recorded positions
\* and each outcome's total_backed is the sum of the stakes recorded on it
\* (a position is recorded exactly when its stake is counted), and a step
\* that answers a placement with an error leaves the positions,
\* total_volume, total_backed and participant_count as they were.
C13_AllOrNothing ==
  [][/\ \A m \in MarketIds :
          market'[m].total_volume = StakedOn(positions', "market_id", m)
     /\ \A o \in OutcomeIds :
          outcome'[o].total_backed = StakedOn(positions', "outcome_id", o)
     /\ (last' # last /\ last'.op = "place" /\ last'.code # 200) =>
          /\ positions' = positions
          /\ \A o \in OutcomeIds :
               outcome'[o].total_backed = outcome[o].total_backed
          /\ \A m \in MarketIds :
               /\ market'[m].total_volume = market[m].total_volume
               /\ market'[m].participant_count =
                    market[m].participant_count]_vars

C13_Witness ==
  /\ last.op = "place"
  /\ last.detail = "foreign key market_outcomes.id"
  /\ Len(positions) > 0
  /\ market[last.market_id].total_volume > 0

\* C14: a step of the service changes a market's status only from closed
\* to resolved (the lifecycle steps only open to closed and open or closed
\* to cancelled); a resolved or cancelled market keeps its status, no
\* market returns to open, and resolved_at and resolution_value change
\* only in the step that makes the market resolved.
C14_StatusMachine ==
  [][\A m \in MarketIds :
       LET old == market[m]
           new == market'[m]
       IN  /\ new.status # old.status =>
                \/ old.status = "closed" /\ new.status = "resolved"
                \/ /\ LifecycleStep
                   /\ \/ old.status = "open" /\ new.status = "closed"
                      \/ /\ old.status \in {"open", "closed"}
                         /\ new.status = "cancelled"
           /\ old.status \in {"resolved", "cancelled"} =>
                new.status = old.status
           /\ old.status # "open" => new.status # "open"
           /\ (\/ new.resolved_at # old.resolved_at
               \/ new.resolution_value # old.resolution_value) =>
                /\ old.status = "closed"
                /\ new.status = "resolved"]_vars

C14_Witness ==
  /\ last.op = "resolve"
  /\ last.detail = "Market must be closed to resolve"
  /\ market[last.market_id].status = "resolved"
  /\ market[last.market_id].resolution_value # NULL
  /\ \E m \in MarketIds : market[m].status = "cancelled"

\* a position_placed event reaches the channel of market m in this step:
\* a placement in m has run through its odds update
PlacedIn(m) ==
  /\ Len(events'[m]) = Len(events[m]) + 1
  /\ events'[m][Len(events'[m])].type = "position_placed"

\* odds (in 1/10000) is a multiple of 0.01 nearest to 1 / max(0.05,
\* min(0.95, total_backed / 100)), i.e. to 100 / c for c clamped to 5..95
IsRoundedOdds(odds, total_backed) ==
  LET c == IF total_backed < 5 THEN 5
           ELSE IF total_backed > 95 THEN 95 ELSE total_backed
      h == odds \div 100
      d == IF h * c >= 10000 THEN h * c - 10000 ELSE 10000 - h * c
  IN  /\ odds % 100 = 0
      /\ 2 * d <= c

\* C15: once a placement in a market has run through its odds update,
\* every outcome of the market with total_backed > 0 has current_odds
\* equal to 1 / max(0.05, min(0.95, total_backed / 100)) rounded to two
\* decimals; total_backed 50 gives 2.00 and total_backed 100 gives 1.05.
C15_OddsFormula ==
  [][\A m \in MarketIds : PlacedIn(m) =>
       \A o \in OutcomeIds :
         LET row == outcome'[o] IN
         (row.market_id = m /\ row.total_backed > 0) =>
           /\ IsRoundedOdds(row.current_odds, row.total_backed)
           /\ row.total_backed = 50 => row.current_odds = 20000
           /\ row.total_backed = 100 => row.current_odds = 10500]_vars

C15_Witness ==
  /\ last.op = "place"
  /\ last.code = 200
  /\ \E o \in OutcomeIds :
       outcome[o].total_backed = 100 /\ outcome[o].current_odds = 10500

WrittenOdds(m) ==
  {outcome'[o].current_odds :
     o \in {x \in OutcomeIds : /\ outcome'[x].market_id = m
                               /\ outcome'[x].total_backed > 0}}

\* C17: every odds value written by the odds recomputation lies in the
\* closed interval [1.0526, 20.0].
C17_OddsInInterval ==
  [][\A m \in MarketIds : PlacedIn(m) =>
       \A odds \in WrittenOdds(m) : 10526 <= odds /\ odds <= 200000]_vars

\* C17 with the rounding to two decimals taken into account: every odds
\* value written by the odds recomputation lies in [1.05, 20.0].
C17_OddsInRoundedInterval ==
  [][\A m \in MarketIds : PlacedIn(m) =>
       \A odds \in WrittenOdds(m) : 10500 <= odds /\ odds <= 200000]_vars

C17_Witness ==
  /\ last.op = "place"
  /\ last.code = 200
  /\ \E o \in OutcomeIds :
       /\ outcome[o].total_backed >= 95
       /\ outcome[o].total_backed # 100
       /\ outcome[o].current_odds = 10500

\* C18: a recorded position keeps its stake, odds and potential_payout
\* through every later placement, odds recomputation and resolution.
C18_PositionTermsFixed ==
  [][/\ Len(positions') >= Len(positions)
     /\ \A i \in 1..Len(positions) :
          /\ positions'[i].stake = positions[i].stake
          /\ positions'[i].odds = positions[i].odds
          /\ positions'[i].potential_payout =
               positions[i].potential_payout]_vars

C18_Witness ==
  \E i, j \in 1..Len(positions) :
    /\ i < j
    /\ positions[i].status = "settled"
    /\ positions[i].odds # outcome[positions[i].outcome_id].current_odds
    /\ positions[i].potential_payout = positions[i].stake * positions[i].odds
    /\ positions[j].outcome_id = positions[i].outcome_id

\* the request of slot s leaves place_position in this step with the odds
\* of its market not recomputed: some backed outcome of the market does
\* not hold the odds of its total_backed
FinishedWithoutOdds(s) ==
  /\ inflight[s].pc = "committed"
  /\ inflight'[s].pc = "idle"
  /\ \E o \in OutcomeIds :
       /\ outcome'[o].market_id = inflight[s].market_id
       /\ outcome'[o].total_backed > 0
       /\ outcome'[o].current_odds # NewOdds(outcome'[o].total_backed)

C20_NoWinnerSettlesNothing ==
  [][\A m \in MarketIds : \A w \in WinningIds \ OutcomesOf(m) :
       ResolvedWith(m, w) =>
         /\ market'[m].status = "resolved"
         /\ Len(positions') = Len(positions)
         /\ \A i \in 1..Len(positions) :
              positions'[i].status = positions[i].status]_vars

\* the positions get_orderbook has to consider for market m and outcome o:
\* the open ones with fewer than 100 newer open ones (positions is in the
\* order of creation)
OpenIndices(m, o) ==
  {i \in 1..Len(positions) : /\ positions[i].market_id = m
                             /\ positions[i].outcome_id = o
                             /\ positions[i].status = "open"}

ConsideredIndices(m, o) ==
  {i \in OpenIndices(m, o) :
     Cardinality({j \in OpenIndices(m, o) : j > i}) < 100}

SideIndices(m, o, side) ==
  {i \in ConsideredIndices(m, o) : positions[i].position_type = side}

\* orders has one entry per odds value of the side, with the stakes summed
IsBookOf(orders, m, o, side) ==
  /\ {orders[k].odds : k \in 1..Len(orders)} =
       {positions[i].odds : i \in SideIndices(m, o, side)}
  /\ \A k \in 1..Len(orders) :
       orders[k].volume =
         RangeSum(LAMBDA i : IF /\ i \in SideIndices(m, o, side)
                                 /\ positions[i].odds = orders[k].odds
                              THEN positions[i].stake ELSE 0,
                  1, Len(positions))

\* C21: an order book answered for a market and an outcome has, per side,
\* one entry per distinct odds value among the 100 newest open positions
\* of that market and outcome on that side, its volume the sum of their
\* stakes; back entries by strictly descending odds, lay entries by
\* strictly ascending odds.
C21_OrderBook ==
  last.op = "orderbook" =>
    /\ IsBookOf(last.back_orders, last.market_id, last.outcome_id, "back")
    /\ IsBookOf(last.lay_orders, last.market_id, last.outcome_id, "lay")
    /\ \A k \in 1..(Len(last.back_orders) - 1) :
         last.back_orders[k].odds > last.back_orders[k + 1].odds
    /\ \A k \in 1..(Len(last.lay_orders) - 1) :
         last.lay_orders[k].odds < last.lay_orders[k + 1].odds

\* exactly one event e is added in this step, to the channel of market m
OneEventTo(m, e) ==
  /\ events'[m] = Append(events[m], e)
  /\ \A n \in MarketIds \ {m} : events'[n] = events[n]

\* C22: with requests handled one after another, the step that records a
\* position adds exactly one position_placed event, carrying the data of
\* the position and the total_volume committed for its market with that
\* stake included; the step that makes a market resolved adds exactly one
\* market_resolved event carrying the committed resolution_value; every
\* other step, a rejected request among them, adds no event.
C22_OneEventPerChange ==
  [][IF Len(positions') = Len(positions) + 1
     THEN LET p == positions'[Len(positions')]
              e == events'[p.market_id][Len(events'[p.market_id])]
          IN  /\ OneEventTo(p.market_id, e)
              /\ e.type = "position_placed"
              /\ e.market_id = p.market_id
              /\ e.outcome_id = p.outcome_id
              /\ e.position_type = p.position_type
              /\ e.stake = p.stake
              /\ e.odds = p.odds
              /\ e.total_volume = market'[p.market_id].total_volume
              /\ market'[p.market_id].total_volume =
                   market[p.market_id].total_volume + p.stake
     ELSE IF \E m \in MarketIds : /\ market[m].status # "resolved"
                                  /\ market'[m].status = "resolved"
     THEN \E m \in MarketIds :
            LET e == events'[m][Len(events'[m])]
            IN  /\ market[m].status # "resolved"
                /\ market'[m].status = "resolved"
                /\ OneEventTo(m, e)
                /\ e.type = "market_resolved"
                /\ e.market_id = m
                /\ e.resolution_value = market'[m].resolution_value
     ELSE events' = events]_vars

C22_Witness ==
  \E m \in MarketIds :
    /\ Len(events[m]) = Len(PositionsOf(m)) + 1
    /\ Len(events[m]) >= 2
    /\ events[m][Len(events[m])].type = "market_resolved"
    /\ last.op = "place"
    /\ last.code # 200

\* C23: also when a placement is interleaved with a close or a resolution
\* of its market, a step records a position in a market, or changes its
\* total_volume or participant_count or the total_backed of one of its
\* outcomes, only while the committed status of the market is open; and
\* no resolved market holds an open back position on its winning outcome.
C23_WritesOnlyWhileOpen ==
  [][/\ \A m \in MarketIds :
          (\/ Len(PositionsOf(m)') # Len(PositionsOf(m))
           \/ market'[m].total_volume # market[m].total_volume
           \/ market'[m].participant_count # market[m].participant_count
           \/ \E o \in OutcomesOf(m) :
                outcome'[o].total_backed # outcome[o].total_backed)
            => market[m].status = "open"
     /\ \A i \in 1..Len(positions') :
          LET p == positions'[i] IN
          ~(/\ market'[p.market_id].status = "resolved"
            /\ p.outcome_id \in Winners(outcome', p.market_id)
            /\ p.position_type = "back"
            /\ p.status = "open")]_vars

\* C24: every recorded position has position_type back or lay and a
\* stake > 0.
C24_TypeAndStakeValid ==
  \A i \in 1..Len(positions) :
    /\ positions[i].position_type \in {"back", "lay"}
    /\ positions[i].stake > 0

\* C25: after every step a settled position is a back position whose
\* outcome has is_winner = true and whose market is resolved; a position's
\* status changes only from open to settled, and settled_at is set exactly
\* on the settled positions, in the step that settles them.
C25_SettledPositions ==
  [][/\ \A i \in 1..Len(positions') :
          LET p == positions'[i] IN
          /\ p.status \in {"open", "settled"}
          /\ p.settled_at # NULL <=> p.status = "settled"
          /\ p.status = "settled" =>
               /\ p.position_type = "back"
               /\ outcome'[p.outcome_id].is_winner = "TRUE"
               /\ market'[p.market_id].status = "resolved"
     /\ \A i \in 1..Len(positions) :
          /\ positions'[i].status # positions[i].status =>
               /\ positions[i].status = "open"
               /\ positions'[i].status = "settled"
          /\ positions'[i].settled_at # positions[i].settled_at =>
               positions'[i].status # positions[i].status]_vars

C25_Witness ==
  \E i, j \in 1..Len(positions) :
    /\ positions[i].status = "settled"
    /\ positions[j].status = "open"
    /\ positions[j].position_type = "back"
    /\ positions[j].market_id = positions[i].market_id
    /\ positions[j].outcome_id # positions[i].outcome_id
    /\ \E m \in MarketIds : Cardinality(Winners(outcome, m)) > 1

\* C26: no position is recorded at a time later than the closes_at of its
\* market.
C26_NoPositionAfterClosesAt ==
  \A i \in 1..Len(positions) :
    positions[i].created_at <= market[positions[i].market_id].closes_at

\* C27: in every reachable state of a game session, concurrent joins and
\* a join between the two commits of creation included, player_count is
\* the number of player rows and at most max_players, no user has two
\* rows, and the rows hold distinct positions.
C27_SessionConsistent ==
  /\ session.player_count = Len(players)
  /\ session.player_count <= session.max_players
  /\ \A i, j \in 1..Len(players) :
       i # j => /\ players[i].clerk_user_id # players[j].clerk_user_id
                /\ players[i].position # players[j].position


\* C28: the status of a session goes from waiting to active exactly in the
\* join after which player_count is at least the game's min_players; it
\* never goes back to waiting; a join on a session that is not waiting is
\* rejected and adds no player and changes no player_count, so that the
\* player_count of an active session never grows.
C28_AutoStart ==
  [][/\ (session.status = "waiting" /\ session'.status = "active")
        => /\ Len(players') = Len(players) + 1
           /\ last'.op = "join" /\ last'.code = 200
           /\ session'.player_count >= session.game.min_players
     /\ (session.status = "waiting" /\ Len(players') = Len(players) + 1
           /\ session'.player_count >= session.game.min_players)
        => session'.status = "active"
     /\ session'.status = "waiting" => session.status \in {"none", "waiting"}
     /\ (session.status = "active" /\ last'.op = "join" /\ last' # last)
        => /\ last'.code # 200
           /\ players' = players
           /\ session' = session
     /\ session.status = "active"
        => /\ session'.status = "active"
           /\ session'.player_count = session.player_count
           /\ players' = players]_vars

C28_Witness ==
  /\ session.status = "active"
  /\ session.player_count < session.max_players
  /\ session.player_count = session.game.min_players
  /\ last.op = "join"
  /\ last.code = 500
  /\ last.detail = "Session is not accepting players"


\* the step stored a move: the event log of the game state grew
MoveApplied == Len(game_state'.events) = Len(game_state.events) + 1

\* the user whose move the step stored
Mover == game_state'.events[Len(game_state'.events)].user_id

\* the player after user u in the players list ps, under either of its ids
NextPlayerIds(ps, u) ==
  LET next == ps[(IndexOf(ps, ProfileOf(u)) % Len(ps)) + 1]
  IN  {next} \cup {v \in GameUsers : ProfileOf(v) = next}

\* C29: after a move of a player is applied the stored turn is the player
\* that follows the mover in the players list, cyclically; once a turn is
\* set, a move of a user who does not hold the turn changes neither the
\* stored state nor the event log and is not broadcast.
C29_TurnRotates ==
  [][/\ MoveApplied
        => /\ game_state'.turn \in NextPlayerIds(game_state'.players, Mover)
           /\ game_state.turn # NULL => game_state.turn = Mover
     /\ (broadcasts' # broadcasts
           /\ broadcasts'[Len(broadcasts')].type = "game_update")
        => MoveApplied]_vars


\* C30: a broadcast interleaved at its sends with connects and disconnects
\* on the same registry delivers the message exactly once to every
\* connection that stays registered throughout, removes only connections
\* whose send failed, and never raises, also when the entry of a game
\* session is deleted meanwhile.
C30_BroadcastDelivers ==
  /\ broadcast.pc # "raised"
  /\ \A w \in Sockets : received[w] <= 1
  /\ \A w \in Members(broadcast.disconnected) : socket[w] # "open"
  /\ broadcast.pc = "done" => \A w \in stayed : received[w] = 1


====
